---- MODULE Spec2Model ----
(***************************************************************************)
(* mkgo: the build orchestration engine.                                   *)
(*   cli.ts        CLI.execute / createBuildConfig / determineTargets      *)
(*   GoBuilder.ts  build / buildTargetsParallel / buildTargetWithCache     *)
(*   BuildCache.ts getCacheKey / calculateSourceHash / restoreFromCache /  *)
(*                 saveToCache / cleanCache                                *)
(*   ChecksumUtil  writeChecksumFiles                                      *)
(*                                                                         *)
(* Strings that the code takes apart (platform arguments, numeric option   *)
(* values) are sequences of tokens; md5 is an injective tag around the     *)
(* bytes it digests (no collisions).                                       *)
(***************************************************************************)
EXTENDS Integers, Sequences, FiniteSets, TLC

\* ------------------------------------------------------------------ bounds
MaxTargets == 2
MaxRuns == 2
MaxRerunTargets == 1
MaxEdits == 1
MaxClock == 1
MaxCores == 2
MaxContentLen == 1
MaxListed == 2

\* --------------------------------------------------------- small utilities
Min(a, b) == IF a <= b THEN a ELSE b

Max(a, b) == IF a >= b THEN a ELSE b

Range(s) == {s[i] : i \in 1..Len(s)}

SeqsUpTo(S, n) == UNION {[1..k -> S] : k \in 0..n}

RECURSIVE Flatten(_)
Flatten(ss) == IF ss = <<>> THEN <<>> ELSE Head(ss) \o Flatten(Tail(ss))

\* a JavaScript number: an integer or NaN
Num(n) == [nan |-> FALSE, n |-> n]

NaN == [nan |-> TRUE, n |-> 0]

\* ------------------------------------------------------------- the machine
\* process.platform / process.arch of the host running the CLI
HostPlatform == <<"linux">>

HostArch == <<"x64">>

SUPPORTED_PLATFORMS ==
  << <<"linux", "/", "amd64">>, <<"linux", "/", "arm64">>, <<"linux", "/", "386">>,
     <<"darwin", "/", "amd64">>, <<"darwin", "/", "arm64">>,
     <<"windows", "/", "amd64">>, <<"windows", "/", "arm64">>, <<"windows", "/", "386">> >>

\* new Date(): the clock counts seconds; the date stamp is the day
SecondsPerDay == 24 * 60 * 60

DateStamp(t) == t \div SecondsPerDay

\* ------------------------------------------------------------ source tree
FileNames == {"a.go", "b.go"}

Bytes == {1}

Contents == SeqsUpTo(Bytes, MaxContentLen)

\* what `find . -name *.go -type f` prints: the files in enumeration order
TreesWith(names, contents) ==
  {t \in SeqsUpTo([name : names, content : contents], Cardinality(names)) :
     \A i, j \in 1..Len(t) : t[i].name = t[j].name => i = j}

TreesOver(names) == TreesWith(names, Contents)

\* the trees of the build runs (one file) and of the key computations (two
\* files, whose contents can differ in a byte)
Trees == TreesOver({"a.go"})

KeyBytes == Bytes \cup {2}

KeyTrees == TreesWith(FileNames, SeqsUpTo(KeyBytes, MaxContentLen))

\* the project at the first invocation: one source file that is not empty
InitTrees == {t \in Trees : Len(t) = 1 /\ t[1].content # <<>>}

\* ------------------------------------------------------- String.split("/")
RECURSIVE Split(_)
Split(s) ==
  IF \A i \in 1..Len(s) : s[i] # "/"
    THEN <<s>>
    ELSE LET k == CHOOSE i \in 1..Len(s) : s[i] = "/" /\ \A j \in 1..(i - 1) : s[j] # "/"
         IN  <<SubSeq(s, 1, k - 1)>> \o Split(SubSeq(s, k + 1, Len(s)))

\* ------------------------------------------------------------- parseInt(s)
Digits == {"0", "1", "2", "3", "4", "5", "6", "7", "8", "9"}

DigitVal(d) ==
  CASE d = "0" -> 0 [] d = "1" -> 1 [] d = "2" -> 2 [] d = "3" -> 3 [] d = "4" -> 4
    [] d = "5" -> 5 [] d = "6" -> 6 [] d = "7" -> 7 [] d = "8" -> 8 [] d = "9" -> 9

RECURSIVE DigitPrefix(_, _)
DigitPrefix(s, acc) ==
  IF s = <<>> \/ Head(s) \notin Digits THEN acc
  ELSE DigitPrefix(Tail(s), 10 * acc + DigitVal(Head(s)))

parseInt(s) ==
  LET neg  == s # <<>> /\ Head(s) = "-"
      body == IF s # <<>> /\ Head(s) \in {"-", "+"} THEN Tail(s) ELSE s
  IN  IF body = <<>> \/ Head(body) \notin Digits THEN NaN
      ELSE Num(IF neg THEN 0 - DigitPrefix(body, 0) ELSE DigitPrefix(body, 0))

\* ---------------------------------------------------------------- CLI side
\* an option that was not given is the empty sequence
Absent == <<>>

NODE_TO_GO_ARCH(a) ==
  CASE a = <<"x64">> -> <<"amd64">>
    [] a = <<"ia32">> -> <<"386">>
    [] OTHER -> a

generateOutputName(os, arch, version, outputDir, binaryName, now) ==
  [dir |-> outputDir, name |-> binaryName, version |-> version, os |-> os,
   arch |-> arch, date |-> DateStamp(now),
   ext |-> IF os = <<"windows">> THEN <<".exe">> ELSE <<>>]

\* cli.ts determineTargets: the platform strings the options stand for
PlatformsOf(options) ==
  IF options.all THEN SUPPORTED_PLATFORMS
  ELSE IF options.target # Absent THEN options.target
  ELSE IF options.os # Absent /\ options.arch # Absent
    THEN Flatten([i \in 1..Len(options.os) |->
           [j \in 1..Len(options.arch) |->
              options.os[i] \o <<"/">> \o NODE_TO_GO_ARCH(options.arch[j])]])
  ELSE IF options.os # Absent
    THEN [i \in 1..Len(options.os) |-> options.os[i] \o <<"/">> \o NODE_TO_GO_ARCH(HostArch)]
  ELSE IF options.arch # Absent
    THEN [j \in 1..Len(options.arch) |->
            HostPlatform \o <<"/">> \o NODE_TO_GO_ARCH(options.arch[j])]
  ELSE << HostPlatform \o <<"/">> \o NODE_TO_GO_ARCH(HostArch) >>

\* const [os, arch] = platform.split("/"); a missing or empty part is falsy
PartOf(platform, k) ==
  IF Len(Split(platform)) >= k THEN Split(platform)[k] ELSE <<>>

ValidFormat(platform) == PartOf(platform, 1) # <<>> /\ PartOf(platform, 2) # <<>>

OptVersion(options) == IF options.version = Absent THEN <<"1.0.0">> ELSE options.version

OptOutput(options) == IF options.output = Absent THEN <<"dist">> ELSE options.output

OptName(options) == IF options.name = Absent THEN <<"app">> ELSE options.name

\* determineTargets throws "Invalid platform format" when some string has no two parts
determineTargetsThrows(options) ==
  \E i \in 1..Len(PlatformsOf(options)) : ~ValidFormat(PlatformsOf(options)[i])

determineTargets(options, now) ==
  [i \in 1..Len(PlatformsOf(options)) |->
     LET platform == PlatformsOf(options)[i]
     IN  [os |-> PartOf(platform, 1), arch |-> PartOf(platform, 2),
          output |-> generateOutputName(PartOf(platform, 1), PartOf(platform, 2),
                       OptVersion(options), OptOutput(options), OptName(options), now),
          platform |-> platform]]

\* cli.ts createBuildConfig; --clean and --checksum are set by default and
\* the build command defines no flag that turns them off
createBuildConfig(options, now, gitHash, randomHash) ==
  [targets |-> determineTargets(options, now),
   ldflags |-> <<>>, tags |-> <<>>,
   cgo |-> options.cgo, race |-> FALSE, compress |-> FALSE,
   version |-> OptVersion(options), buildVersion |-> <<>>,
   checksum |-> options.checksum # FALSE, clean |-> options.clean # FALSE,
   debug |-> FALSE, verbose |-> FALSE,
   timestamp |-> now, gitHash |-> gitHash, randomHash |-> randomHash,
   outputDir |-> OptOutput(options), binaryName |-> OptName(options),
   static |-> FALSE, strip |-> FALSE,
   timeout |-> parseInt(IF options.timeout = Absent THEN <<"3", "0", "0">> ELSE options.timeout),
   parallel |-> parseInt(IF options.parallel = Absent THEN <<"2">> ELSE options.parallel),
   skipTests |-> FALSE, skipVerification |-> FALSE, noCache |-> options.noCache]

\* ------------------------------------------------------------- BuildCache
\* crypto md5 digest: injective on what it digests
Md5(data) == [md5 |-> data]

\* JSON.stringify(config): every field, the targets included, in the order
\* of the object literal
JSONstringify(c) ==
  << <<"targets", c.targets>>, <<"ldflags", c.ldflags>>, <<"tags", c.tags>>,
     <<"cgo", c.cgo>>, <<"race", c.race>>, <<"compress", c.compress>>,
     <<"version", c.version>>, <<"buildVersion", c.buildVersion>>,
     <<"checksum", c.checksum>>, <<"clean", c.clean>>, <<"debug", c.debug>>,
     <<"verbose", c.verbose>>, <<"timestamp", c.timestamp>>, <<"gitHash", c.gitHash>>,
     <<"randomHash", c.randomHash>>, <<"outputDir", c.outputDir>>,
     <<"binaryName", c.binaryName>>, <<"static", c.static>>, <<"strip", c.strip>>,
     <<"timeout", c.timeout>>, <<"parallel", c.parallel>>, <<"skipTests", c.skipTests>>,
     <<"skipVerification", c.skipVerification>>, <<"noCache", c.noCache>> >>

\* the sentinel 'unknown' of calculateSourceHash
Unknown == [kind |-> "unknown", of |-> <<>>]

\* hash.update(content) for every file that find printed, in that order:
\* the digest is over the concatenated contents only
calculateSourceHash(t) ==
  [kind |-> "md5", of |-> Md5(Flatten([i \in 1..Len(t) |-> t[i].content]))]

configHashOf(c) == Md5(JSONstringify(c))

\* `${target.platform}-${sourceHash}-${configHash}`
getCacheKey(target, c, sourceHash) ==
  [platform |-> target.platform, sourceHash |-> sourceHash, configHash |-> configHashOf(c)]

NoKey == [platform |-> <<>>, sourceHash |-> Unknown, configHash |-> Md5(<<>>)]

\* private cacheDir = '.mkgo-cache'
cacheDir == <<".mkgo-cache">>

\* path.normalize on a list of path segments: empty and "." segments drop
\* out, ".." removes the segment before it (or stays, at the front)
RECURSIVE normalize(_, _)
normalize(segs, acc) ==
  IF segs = <<>> THEN acc
  ELSE IF Head(segs) = <<>> \/ Head(segs) = <<".">> THEN normalize(Tail(segs), acc)
  ELSE IF Head(segs) = <<"..">> /\ acc # <<>> /\ acc[Len(acc)] # <<"..">>
    THEN normalize(Tail(segs), SubSeq(acc, 1, Len(acc) - 1))
  ELSE normalize(Tail(segs), Append(acc, Head(segs)))

\* path.join(this.cacheDir, `${cacheKey}.bin`): the slashes of the platform
\* label make directories below the cache directory; the file name is the
\* last part of the label followed by "-<sourceHash>-<configHash>.bin" (the
\* hashes are hex digits of fixed width, so the name determines its parts)
cacheFile(cacheKey) ==
  LET parts == Split(cacheKey.platform)
  IN  [dir |-> normalize(<<cacheDir>> \o SubSeq(parts, 1, Len(parts) - 1), <<>>),
       stem |-> parts[Len(parts)],
       sourceHash |-> cacheKey.sourceHash, configHash |-> cacheKey.configHash]

\* ------------------------------------------------------------- GoBuilder
\* the environment of the go child process and the flags that reach the binary
buildGoArgs(target, c) ==
  [o |-> target.output,
   ldflags |-> <<c.version, c.timestamp, c.gitHash>> \o c.ldflags,
   tags |-> c.tags, race |-> c.race, debug |-> c.debug]

\* { ...a, ...b }: the keys of b win
Spread(a, b) == [x \in DOMAIN a \cup DOMAIN b |-> IF x \in DOMAIN b THEN b[x] ELSE a[x]]

\* executeGoBuild: env: { GOOS, GOARCH, CGO_ENABLED, ...process.env }
childEnv(target, c, parent) ==
  Spread([GOOS |-> target.os, GOARCH |-> target.arch,
          CGO_ENABLED |-> IF c.cgo THEN "1" ELSE "0"], parent)

\* the bytes `go build` writes to target.output: the toolchain compiles for
\* the GOOS, GOARCH and CGO_ENABLED of its environment
Compile(t, target, c, env) ==
  [src |-> t,
   GOOS |-> env.GOOS, GOARCH |-> env.GOARCH, CGO_ENABLED |-> env.CGO_ENABLED,
   ldflags |-> buildGoArgs(target, c).ldflags,
   tags |-> buildGoArgs(target, c).tags,
   race |-> buildGoArgs(target, c).race,
   debug |-> buildGoArgs(target, c).debug]

\* the limit of a scheduler that forgets the core count
ParallelLimit_ignoresCores(c, ncpu) == c.parallel

\* Math.min(config.parallel, os.cpus().length)
ParallelLimit(c, ncpu) ==
  IF c.parallel.nan THEN NaN ELSE Num(Min(c.parallel.n, ncpu))

\* Array.prototype.slice(i, j) of the index list 1..n, for i >= 0 (0-based)
SliceIdx(n, i, j) == [k \in 1..(Min(Max(j, i), n) - Min(i, n)) |-> Min(i, n) + k]

\* for (let i = 0; i < n; i += limit) batches.push(targets.slice(i, i + limit))
\* with a limit that is not positive i never grows and the loop does not end
RECURSIVE BatchLoop(_, _, _, _)
BatchLoop(n, limit, i, acc) ==
  IF ~(i < n) THEN [diverges |-> FALSE, batches |-> acc]
  ELSE IF limit.nan THEN [diverges |-> FALSE, batches |-> Append(acc, SliceIdx(n, i, 0))]
  ELSE IF limit.n <= 0 THEN [diverges |-> TRUE, batches |-> <<>>]
  ELSE BatchLoop(n, limit, i + limit.n, Append(acc, SliceIdx(n, i, i + limit.n)))

BatchesOf(c, ncpu) == BatchLoop(Len(c.targets), ParallelLimit(c, ncpu), 0, <<>>)

\* ------------------------------------------------------------ ChecksumUtil
Sha256(data) == [sha256 |-> data]

\* path.basename(binary)
basename(p) == [p EXCEPT !.dir = <<>>]

\* ----------------------------------------------------------------- files
EmptyFn == [x \in {} |-> TRUE]

Put(f, k, v) == [x \in DOMAIN f \cup {k} |-> IF x = k THEN v ELSE f[x]]

Restrict(f, S) == [x \in S |-> f[x]]

\* ------------------------------------------------------------ input sets
GitHash == <<"c0ffee">>

\* GoUtils.generateRandomHash: the k-th invocation draws a value drawn
\* before or the next unused one (the values are interchangeable)
generateRandomHash(k) == 1..k

PlatformArgs == {<<"linux", "/", "amd64">>, <<"windows", "/", "amd64">>, <<"linux">>}

TargetArgs(n) == SeqsUpTo(PlatformArgs, n)

ParallelArgs == {Absent, <<"0">>, <<"-", "1">>, <<"x">>}

\* the options CLI.execute is called with: up to n --target arguments;
\* commander passes checksum = true and clean = true (the build command has
\* no flag that turns them off), createBuildConfig reads `options.clean !== false`
CLIOptionsOver(platforms, n, cleans, noCaches) ==
  [all : {FALSE}, target : SeqsUpTo(platforms, n), os : {Absent}, arch : {Absent},
   version : {Absent}, output : {Absent}, name : {Absent},
   cgo : {FALSE}, checksum : {TRUE}, clean : cleans,
   timeout : {Absent}, parallel : ParallelArgs, noCache : noCaches]

\* the commands without --no-cache
CLIOptions(n, cleans) == CLIOptionsOver(PlatformArgs, n, cleans, {FALSE})

\* process.env of the CLI process, as far as the toolchain reads it: nothing
\* set, or a shell that exports GOOS or CGO_ENABLED
NoEnv == [x \in {} |-> <<>>]

ParentEnvs == {NoEnv, [GOOS |-> <<"darwin">>], [CGO_ENABLED |-> "1"]}

\* ------------------------------------------------------------------ state
VARIABLES
  tree,           \* the *.go files of the project, in find's order
  edits,          \* number of source modifications so far
  goMod,          \* go.mod exists
  cores,          \* os.cpus().length
  clock,          \* seconds
  store,          \* .mkgo-cache: cache file -> blob
  outFiles,       \* binaries on disk: output path -> blob
  sumFiles,       \* checksum files on disk: path -> content
  builtBinaries,  \* GoBuilder.builtBinaries
  checksumFiles,  \* GoBuilder.checksumFiles
  failedBuilds,   \* GoBuilder.failedBuilds
  config,         \* the BuildConfig of the build() call in progress
  pc,             \* where build() is: idle, sched, hung
  batches,        \* buildTargetsParallel: batches of target indices
  batchIdx,       \* the batch whose jobs were started last
  jobs,           \* target index -> [pc, key, exit]
  runs,           \* build invocations so far
  caller,         \* who started the invocation in progress, with which options
  procEnv,        \* process.env of the CLI process
  goInstalled,    \* the go executable is on the PATH
  resolveIn,      \* determineTargets on its own: the options
  resolveOut,     \* determineTargets on its own: the outcome
  keyIn,          \* getCacheKey on its own: two trees, two configs, a target of each
  keyOut,         \* getCacheKey on its own: the two keys
  hist            \* one record per finished invocation

vars == <<tree, edits, goMod, cores, clock, store, outFiles, sumFiles, builtBinaries,
          checksumFiles, failedBuilds, config, pc, batches, batchIdx, jobs, runs, caller,
          procEnv, goInstalled, resolveIn, resolveOut, keyIn, keyOut, hist>>

envVars == <<goMod, cores, procEnv, goInstalled, resolveIn, resolveOut, keyIn, keyOut>>

DefaultOptions ==
  [all |-> FALSE, target |-> Absent, os |-> Absent, arch |-> Absent, version |-> Absent,
   output |-> Absent, name |-> Absent, cgo |-> FALSE, checksum |-> TRUE, clean |-> TRUE,
   timeout |-> Absent, parallel |-> Absent, noCache |-> FALSE]

NoConfig == createBuildConfig(DefaultOptions, 0, GitHash, 0)

Terminal == {"Restored", "CachePersisted", "BuildFailed"}

PendingJob == [pc |-> "Pending", key |-> NoKey, env |-> NoEnv, exit |-> "none"]

InitHost(envs, toolchains) ==
  /\ tree \in InitTrees
  /\ edits = 0
  /\ goMod \in BOOLEAN
  /\ cores \in 1..MaxCores
  /\ procEnv \in envs
  /\ goInstalled \in toolchains
  /\ resolveIn = <<>>
  /\ resolveOut = [done |-> FALSE]
  /\ clock = 0
  /\ store = EmptyFn
  /\ outFiles = EmptyFn
  /\ sumFiles = EmptyFn
  /\ builtBinaries = <<>>
  /\ checksumFiles = <<>>
  /\ failedBuilds = <<>>
  /\ config = NoConfig
  /\ pc = "idle"
  /\ batches = <<>>
  /\ batchIdx = 0
  /\ jobs = <<>>
  /\ runs = 0
  /\ caller = [via |-> "none", options |-> DefaultOptions, store |-> EmptyFn, edits |-> 0]
  /\ keyIn = <<>>
  /\ keyOut = [done |-> FALSE]
  /\ hist = <<>>

\* any host: go installed or not, any parent environment
Init == InitHost(ParentEnvs, BOOLEAN)

\* a host with the toolchain and nothing exported
InitRerun == InitHost({NoEnv}, {TRUE})

\* a result whose flag reports that something was built
createBuildResult_anyBinary(bb, cf, fb) ==
  [kind |-> "returned", success |-> Len(bb) > 0, binaries |-> bb, checksums |-> cf,
   failed |-> fb]

\* GoBuilder.createBuildResult
createBuildResult(bb, cf, fb) ==
  [kind |-> "returned", success |-> Len(fb) = 0, binaries |-> bb, checksums |-> cf,
   failed |-> fb]

Thrown == [kind |-> "thrown", success |-> FALSE, binaries |-> <<>>, checksums |-> <<>>,
           failed |-> <<>>]

Missing == [missing |-> TRUE]

FileAt(files, p) == IF p \in DOMAIN files THEN files[p] ELSE Missing

\* who runs an invocation, and the cache and the edit count it started from
Caller(options) ==
  [via |-> "cli", options |-> options, store |-> store, edits |-> edits]

\* what is recorded about an invocation when it ends: how it ended (threw is
\* "none" or the step that threw), its jobs, the builder's lists, the files
RunRecord(who, c, res, threw, js, bs, bb, fb, files) ==
  [via |-> who.via, options |-> who.options, config |-> c, result |-> res, threw |-> threw,
   jobs |-> js, batches |-> bs, builtBinaries |-> bb, failedBuilds |-> fb,
   outs |-> [i \in 1..Len(c.targets) |-> FileAt(files, c.targets[i].output)],
   storeBefore |-> who.store, editsBefore |-> who.edits,
   storeAfter |-> store, edits |-> edits]

\* an execute that looks at the result only to print it
processExit_onThrowOnly(h) == IF h.result.kind = "thrown" THEN 1 ELSE 0

\* CLI.execute, the end: process.exit(1) in the catch block and when
\* result.success is false; otherwise the process ends with code 0
processExit(h) ==
  IF h.result.kind = "thrown" THEN 1
  ELSE IF ~h.result.success THEN 1
  ELSE 0

\* GoBuilder.cleanBuildDir: fs.remove(outputDir)
cleanBuildDir(files, dir) == Restrict(files, {p \in DOMAIN files : p.dir # dir})

\* a check that takes every directory for a Go project
validateGoProject_alwaysTrue(exists) == TRUE

\* GoUtils.validateGoProject: fs.access('go.mod') succeeds
validateGoProject(exists) == exists

\* GoBuilder.build up to the first batch: validateGoProject, the clean step,
\* ensureDir, and the batch split of buildTargetsParallel
BuildPrologue(c, who, fresh) ==
  /\ runs' = runs + 1
  /\ caller' = who
  /\ config' = c
  /\ builtBinaries' = IF fresh THEN <<>> ELSE builtBinaries
  /\ checksumFiles' = IF fresh THEN <<>> ELSE checksumFiles
  /\ failedBuilds' = IF fresh THEN <<>> ELSE failedBuilds
  /\ IF ~validateGoProject(goMod)
       THEN /\ pc' = "idle"
            /\ hist' = Append(hist, RunRecord(who, c, Thrown, "validateGoProject", <<>>, <<>>,
                                               builtBinaries', failedBuilds', outFiles))
            /\ UNCHANGED <<store, outFiles, sumFiles, batches, batchIdx, jobs>>
       ELSE /\ outFiles' = IF c.clean THEN cleanBuildDir(outFiles, c.outputDir) ELSE outFiles
            /\ sumFiles' = IF c.clean THEN cleanBuildDir(sumFiles, c.outputDir) ELSE sumFiles
            /\ store' = IF c.clean THEN EmptyFn ELSE store
            /\ jobs' = [i \in 1..Len(c.targets) |-> PendingJob]
            /\ batchIdx' = 0
            /\ pc' = IF BatchesOf(c, cores).diverges THEN "hung" ELSE "sched"
            /\ batches' = BatchesOf(c, cores).batches
            /\ UNCHANGED hist

\* cli.ts execute -> createBuildConfig -> runBuild (a new GoBuilder) -> build.
\* The first invocation takes any options at time 0; a later one repeats the
\* command, at the same second or later
ExecuteFrom(optionSet, maxRuns) ==
  /\ pc = "idle"
  /\ runs < maxRuns
  /\ \E options \in (IF runs = 0 THEN optionSet ELSE {caller.options}),
        now \in (IF runs = 0 THEN {clock} ELSE clock..MaxClock),
        r \in generateRandomHash(runs + 1) :
       /\ clock' = now
       /\ IF determineTargetsThrows(options)
            THEN /\ runs' = runs + 1
                 /\ caller' = Caller(options)
                 /\ hist' = Append(hist, RunRecord(caller', NoConfig, Thrown, "determineTargets",
                                                    <<>>, <<>>, <<>>, <<>>, outFiles))
                 /\ UNCHANGED <<store, outFiles, sumFiles, builtBinaries, checksumFiles,
                                failedBuilds, config, pc, batches, batchIdx, jobs>>
            ELSE BuildPrologue(createBuildConfig(options, now, GitHash, r),
                               Caller(options), TRUE)
  /\ UNCHANGED <<tree, edits, envVars>>

\* one build command, as the command line issues it
Execute == ExecuteFrom(CLIOptions(MaxTargets, {TRUE}), 1)

\* one build command over more platform strings, with or without --no-cache
AnyPlatformArgs == PlatformArgs \cup {<<"linux", "/", "arm64", "/", "..", "/", "amd64">>}

ExecuteAny == ExecuteFrom(CLIOptionsOver(AnyPlatformArgs, MaxTargets, {TRUE}, BOOLEAN), 1)

\* a build on a short target list and its repetitions, clean on or off
ExecuteAgain == ExecuteFrom(CLIOptions(MaxRerunTargets, BOOLEAN), MaxRuns)

\* ------------------------------------------------- buildTargetsParallel
\* a loop that does not await the batch
BatchSettled_noAwait(k) == TRUE

\* await Promise.allSettled(batch.map(...)): every job of batch k is settled
BatchSettled(k) ==
  IF k = 0 THEN TRUE ELSE \A i \in Range(batches[k]) : jobs[i].pc \in Terminal

\* batch.map(target => this.buildTargetWithCache(target, config)): every job
\* of the next batch starts and runs up to its first await (the find of
\* calculateSourceHash)
StartBatch ==
  /\ pc = "sched"
  /\ batchIdx < Len(batches)
  /\ BatchSettled(batchIdx)
  /\ batchIdx' = batchIdx + 1
  /\ jobs' = [i \in DOMAIN jobs |->
               IF i \in Range(batches[batchIdx + 1])
                 THEN [jobs[i] EXCEPT !.pc = "Hashing"] ELSE jobs[i]]
  /\ UNCHANGED <<tree, edits, envVars, clock, store, outFiles, sumFiles, builtBinaries,
                 checksumFiles, failedBuilds, config, pc, batches, runs, caller, hist>>

\* ------------------------------------------------- buildTargetWithCache
\* getCacheKey: calculateSourceHash reads the tree as it is now; a failing
\* find or read gives the sentinel
ComputeKey(i) ==
  /\ pc = "sched"
  /\ jobs[i].pc = "Hashing"
  /\ \E ioError \in BOOLEAN :
       jobs' = [jobs EXCEPT ![i].pc = "Keyed",
                            ![i].key = getCacheKey(config.targets[i], config,
                                         IF ioError THEN Unknown ELSE calculateSourceHash(tree))]
  /\ UNCHANGED <<tree, edits, envVars, clock, store, outFiles, sumFiles, builtBinaries,
                 checksumFiles, failedBuilds, config, pc, batches, batchIdx, runs, caller, hist>>

\* restoreFromCache returns true: the blob is copied to target.output and
\* the output path is pushed to builtBinaries
RestoreHit(i) ==
  /\ pc = "sched"
  /\ jobs[i].pc = "Keyed"
  /\ cacheFile(jobs[i].key) \in DOMAIN store
  /\ outFiles' = Put(outFiles, config.targets[i].output, store[cacheFile(jobs[i].key)])
  /\ builtBinaries' = Append(builtBinaries, config.targets[i].output)
  /\ jobs' = [jobs EXCEPT ![i].pc = "Restored"]
  /\ UNCHANGED <<tree, edits, envVars, clock, store, sumFiles, checksumFiles, failedBuilds,
                 config, pc, batches, batchIdx, runs, caller, hist>>

\* restoreFromCache returns false (no file for the key, or the copy failed
\* and the error was swallowed); executeGoBuild starts the go process
RestoreMiss(i) ==
  /\ pc = "sched"
  /\ jobs[i].pc = "Keyed"
  /\ jobs' = [jobs EXCEPT ![i].pc = "Building",
                          ![i].env = childEnv(config.targets[i], config, procEnv)]
  /\ UNCHANGED <<tree, edits, envVars, clock, store, outFiles, sumFiles, builtBinaries,
                 checksumFiles, failedBuilds, config, pc, batches, batchIdx, runs, caller, hist>>

\* the go process ends: exit 0 (the binary is written, chmod), a nonzero
\* exit, or the timeout kill; without a go executable the spawn fails
\* (ENOENT); a rejection goes to the catch block
GoExit(i) ==
  /\ pc = "sched"
  /\ jobs[i].pc = "Building"
  /\ \E exit \in (IF goInstalled THEN {"ok", "nonzero", "timeout"} ELSE {"enoent"}) :
       IF exit = "ok"
         THEN /\ outFiles' = Put(outFiles, config.targets[i].output,
                                 Compile(tree, config.targets[i], config, jobs[i].env))
              /\ jobs' = [jobs EXCEPT ![i].pc = "Built", ![i].exit = exit]
              /\ UNCHANGED failedBuilds
         ELSE /\ failedBuilds' = Append(failedBuilds, config.targets[i].platform)
              /\ jobs' = [jobs EXCEPT ![i].pc = "BuildFailed", ![i].exit = exit]
              /\ UNCHANGED outFiles
  /\ UNCHANGED <<tree, edits, envVars, clock, store, sumFiles, builtBinaries,
                 checksumFiles, config, pc, batches, batchIdx, runs, caller, hist>>

\* saveToCache(cacheKey, target.output) and what follows it in the try
\* block; an error of ensureDir or copy is thrown into the catch block
SaveToCache(i) ==
  /\ pc = "sched"
  /\ jobs[i].pc = "Built"
  /\ \E ioError \in BOOLEAN :
       IF ioError \/ config.targets[i].output \notin DOMAIN outFiles
         THEN /\ failedBuilds' = Append(failedBuilds, config.targets[i].platform)
              /\ jobs' = [jobs EXCEPT ![i].pc = "BuildFailed"]
              /\ UNCHANGED <<store, builtBinaries>>
         ELSE /\ store' = Put(store, cacheFile(jobs[i].key), outFiles[config.targets[i].output])
              /\ builtBinaries' = Append(builtBinaries, config.targets[i].output)
              /\ jobs' = [jobs EXCEPT ![i].pc = "CachePersisted"]
              /\ UNCHANGED failedBuilds
  /\ UNCHANGED <<tree, edits, envVars, clock, outFiles, sumFiles, checksumFiles,
                 config, pc, batches, batchIdx, runs, caller, hist>>

\* ------------------------------------------------------ end of build()
\* ChecksumUtil.writeChecksumFiles(binaries, outputDir)
ManifestPath(dir) == [dir |-> dir, file |-> <<"checksums.txt">>]

IndividualPath(dir, binary) == [dir |-> dir, file |-> <<"checksums", basename(binary), ".sha256">>]

ManifestLines(files, binaries) ==
  [k \in 1..Len(binaries) |-> <<Sha256(files[binaries[k]]), basename(binaries[k])>>]

\* the paths writeChecksumFiles returns
ChecksumPaths(binaries, dir) ==
  <<ManifestPath(dir)>> \o [k \in 1..Len(binaries) |-> IndividualPath(dir, binaries[k])]

\* the files writeChecksumFiles has written when it returns
writtenChecksumFiles(sums, files, binaries, dir) ==
  [p \in DOMAIN sums \cup Range(ChecksumPaths(binaries, dir)) |->
     IF p = ManifestPath(dir) THEN ManifestLines(files, binaries)
     ELSE IF \E k \in 1..Len(binaries) : p = IndividualPath(dir, binaries[k])
       THEN Sha256(files[CHOOSE b \in Range(binaries) : p = IndividualPath(dir, b)])
       ELSE sums[p]]

\* a binary listed in builtBinaries that is no longer on disk makes readFile throw
ChecksumReadFails == \E k \in 1..Len(builtBinaries) : builtBinaries[k] \notin DOMAIN outFiles

EndRecord(res, threw) ==
  RunRecord(caller, config, res, threw, jobs, batches, builtBinaries, failedBuilds, outFiles)

\* all batches are settled: generateChecksums, then createBuildResult; an
\* error of writeChecksumFiles is rethrown by build()
Finish ==
  /\ pc = "sched"
  /\ batchIdx = Len(batches)
  /\ BatchSettled(batchIdx)
  /\ pc' = "idle"
  /\ IF config.checksum /\ Len(builtBinaries) > 0
       THEN \E ioError \in BOOLEAN :
              IF ioError \/ ChecksumReadFails
                THEN /\ hist' = Append(hist, EndRecord(Thrown, "generateChecksums"))
                     /\ UNCHANGED <<sumFiles, checksumFiles>>
                ELSE /\ sumFiles' = writtenChecksumFiles(sumFiles, outFiles, builtBinaries,
                                                         config.outputDir)
                     /\ checksumFiles' = ChecksumPaths(builtBinaries, config.outputDir)
                     /\ hist' = Append(hist, EndRecord(
                                  createBuildResult(builtBinaries, checksumFiles', failedBuilds),
                                  "none"))
       ELSE /\ hist' = Append(hist, EndRecord(
                         createBuildResult(builtBinaries, checksumFiles, failedBuilds), "none"))
            /\ UNCHANGED <<sumFiles, checksumFiles>>
  /\ UNCHANGED <<tree, edits, envVars, clock, store, outFiles, builtBinaries, failedBuilds,
                 config, batches, batchIdx, jobs, runs, caller>>

\* ------------------------------------------------------- the environment
\* somebody edits the sources: any other tree (before the first invocation
\* the tree is the one Init chose). An edit or a clean that no invocation
\* follows is not read by any code, so the environment acts while a build
\* runs or while another one can follow
Observed(maxRuns) == pc = "sched" \/ (pc = "idle" /\ runs < maxRuns)

SourceEditBefore(maxRuns) ==
  /\ edits < MaxEdits
  /\ runs > 0
  /\ Observed(maxRuns)
  /\ edits' = edits + 1
  /\ \E t \in Trees \ {tree} : tree' = t
  /\ UNCHANGED <<envVars, clock, store, outFiles, sumFiles, builtBinaries, checksumFiles,
                 failedBuilds, config, pc, batches, batchIdx, jobs, runs, caller, hist>>

SourceEdit == SourceEditBefore(1)

SourceEditAgain == SourceEditBefore(MaxRuns)

\* cli.ts clean (--cache, --dist, --all) and cache --clear
CleanCommand ==
  /\ pc = "idle"
  /\ runs < MaxRuns
  /\ store # EmptyFn \/ outFiles # EmptyFn
  /\ \E what \in {"cache", "dist", "all"} :
       /\ store' = IF what \in {"cache", "all"} THEN EmptyFn ELSE store
       /\ outFiles' = IF what \in {"dist", "all"} THEN cleanBuildDir(outFiles, <<"dist">>)
                      ELSE outFiles
       /\ sumFiles' = IF what \in {"dist", "all"} THEN cleanBuildDir(sumFiles, <<"dist">>)
                      ELSE sumFiles
  /\ UNCHANGED <<tree, edits, envVars, clock, builtBinaries, checksumFiles, failedBuilds,
                 config, pc, batches, batchIdx, jobs, runs, caller, hist>>

Next ==
  \/ Execute
  \/ StartBatch
  \/ \E i \in DOMAIN jobs : ComputeKey(i)
  \/ \E i \in DOMAIN jobs : RestoreHit(i)
  \/ \E i \in DOMAIN jobs : RestoreMiss(i)
  \/ \E i \in DOMAIN jobs : GoExit(i)
  \/ \E i \in DOMAIN jobs : SaveToCache(i)
  \/ Finish

Spec == Init /\ [][Next]_vars

\* the same command while somebody edits the sources
NextEdit ==
  \/ Execute
  \/ StartBatch
  \/ \E i \in DOMAIN jobs : ComputeKey(i)
  \/ \E i \in DOMAIN jobs : RestoreHit(i)
  \/ \E i \in DOMAIN jobs : RestoreMiss(i)
  \/ \E i \in DOMAIN jobs : GoExit(i)
  \/ \E i \in DOMAIN jobs : SaveToCache(i)
  \/ Finish
  \/ SourceEdit

SpecEdit == Init /\ [][NextEdit]_vars

\* one command of the wider set, on a host with the toolchain
NextAny ==
  \/ ExecuteAny
  \/ StartBatch
  \/ \E i \in DOMAIN jobs : ComputeKey(i)
  \/ \E i \in DOMAIN jobs : RestoreHit(i)
  \/ \E i \in DOMAIN jobs : RestoreMiss(i)
  \/ \E i \in DOMAIN jobs : GoExit(i)
  \/ \E i \in DOMAIN jobs : SaveToCache(i)
  \/ Finish

SpecAny == InitRerun /\ [][NextAny]_vars

\* the command is run MaxRuns times, on a small target list
NextRerun ==
  \/ ExecuteAgain
  \/ StartBatch
  \/ \E i \in DOMAIN jobs : ComputeKey(i)
  \/ \E i \in DOMAIN jobs : RestoreHit(i)
  \/ \E i \in DOMAIN jobs : RestoreMiss(i)
  \/ \E i \in DOMAIN jobs : GoExit(i)
  \/ \E i \in DOMAIN jobs : SaveToCache(i)
  \/ Finish
  \/ SourceEditAgain
  \/ CleanCommand

SpecRerun == InitRerun /\ [][NextRerun]_vars

\* ------------------------------------- one GoBuilder used more than once
\* a program that imports GoBuilder, constructs one instance and calls
\* build(config) on it MaxRuns times with the same configuration; the
\* instance keeps its builtBinaries, checksumFiles and failedBuilds
ApiCaller(options) ==
  [via |-> "api", options |-> options, store |-> store, edits |-> edits]

ApiBuildOf(optionSet, more) ==
  /\ pc = "idle"
  /\ more
  /\ \E options \in (IF runs = 0
                       THEN {o \in optionSet : ~determineTargetsThrows(o)}
                       ELSE {caller.options}) :
       BuildPrologue(createBuildConfig(options, clock, GitHash, 1), ApiCaller(options), FALSE)
  /\ UNCHANGED <<tree, edits, envVars, clock>>

ApiBuild == ApiBuildOf(CLIOptions(MaxRerunTargets, BOOLEAN), runs < MaxRuns)

\* the BuildResult of the k-th invocation as its holder sees it now:
\* createBuildResult puts the builder's own arrays into the result
\* (binaries: this.builtBinaries, failed: this.failedBuilds), so what the
\* builder pushes later shows in it; checksumFiles is assigned anew by
\* generateChecksums, and a command-line run has a builder of its own
heldResult(k) ==
  IF hist[k].via = "api" /\ hist[k].result.kind = "returned"
    THEN [hist[k].result EXCEPT !.binaries = builtBinaries, !.failed = failedBuilds]
    ELSE hist[k].result

NextApi ==
  \/ ApiBuild
  \/ StartBatch
  \/ \E i \in DOMAIN jobs : ComputeKey(i)
  \/ \E i \in DOMAIN jobs : RestoreHit(i)
  \/ \E i \in DOMAIN jobs : RestoreMiss(i)
  \/ \E i \in DOMAIN jobs : GoExit(i)
  \/ \E i \in DOMAIN jobs : SaveToCache(i)
  \/ Finish

SpecApi == InitRerun /\ [][NextApi]_vars

\* --------------------------------------------- go.mod goes away
\* somebody removes go.mod after a build() call
GoModRemoved ==
  /\ pc = "idle"
  /\ runs > 0
  /\ goMod
  /\ goMod' = FALSE
  /\ UNCHANGED <<tree, edits, cores, procEnv, goInstalled, resolveIn, resolveOut, keyIn,
                 keyOut, clock, store, outFiles, sumFiles, builtBinaries, checksumFiles,
                 failedBuilds, config, pc, batches, batchIdx, jobs, runs, caller, hist>>

\* a program that calls build(config) on its GoBuilder, and once more when
\* go.mod has been removed since; it gives up after the error
ApiBuildRetry ==
  ApiBuildOf(CLIOptions(MaxTargets, {TRUE}),
             IF runs = 0 THEN TRUE
             ELSE ~goMod /\ hist[Len(hist)].threw # "validateGoProject")

NextGoMod ==
  \/ ApiBuildRetry
  \/ GoModRemoved
  \/ StartBatch
  \/ \E i \in DOMAIN jobs : ComputeKey(i)
  \/ \E i \in DOMAIN jobs : RestoreHit(i)
  \/ \E i \in DOMAIN jobs : RestoreMiss(i)
  \/ \E i \in DOMAIN jobs : GoExit(i)
  \/ \E i \in DOMAIN jobs : SaveToCache(i)
  \/ Finish

SpecGoMod == InitRerun /\ [][NextGoMod]_vars

\* ---------------------------------------------- a crash during saveToCache
\* a file that holds only a prefix of the bytes of blob
Partial(blob) == [partialOf |-> blob]

IsPartial(content) == "partialOf" \in DOMAIN content

\* the process is killed
Crashed == [Thrown EXCEPT !.kind = "crashed"]

\* the process dies between the end of go build and the end of saveToCache:
\* fs.copy(binaryPath, cacheFile) writes to the cache file itself, so the
\* file is not there yet, holds a prefix of the binary, or holds all of it
CrashInSave(i) ==
  /\ pc = "sched"
  /\ jobs[i].pc = "Built"
  /\ config.targets[i].output \in DOMAIN outFiles
  /\ \E written \in {"nothing", "prefix", "all"} :
       store' = IF written = "nothing" THEN store
                ELSE Put(store, cacheFile(jobs[i].key),
                         IF written = "prefix" THEN Partial(outFiles[config.targets[i].output])
                         ELSE outFiles[config.targets[i].output])
  /\ pc' = "idle"
  /\ hist' = Append(hist, EndRecord(Crashed, "crash"))
  /\ UNCHANGED <<tree, edits, envVars, clock, outFiles, sumFiles, builtBinaries, checksumFiles,
                 failedBuilds, config, batches, batchIdx, jobs, runs, caller>>

\* the command is run MaxRuns times and the process can die while it saves
NextCrash ==
  \/ ExecuteAgain
  \/ StartBatch
  \/ \E i \in DOMAIN jobs : ComputeKey(i)
  \/ \E i \in DOMAIN jobs : RestoreHit(i)
  \/ \E i \in DOMAIN jobs : RestoreMiss(i)
  \/ \E i \in DOMAIN jobs : GoExit(i)
  \/ \E i \in DOMAIN jobs : SaveToCache(i)
  \/ \E i \in DOMAIN jobs : CrashInSave(i)
  \/ Finish

SpecCrash == InitRerun /\ [][NextCrash]_vars

\* ------------------------------------------------ getCacheKey on its own
\* the configurations of the key computations: createBuildConfig of commands
\* that differ in their --target arguments only
KeyConfigs ==
  {createBuildConfig(o, 0, GitHash, 1) :
     o \in {x \in CLIOptions(MaxTargets, {TRUE}) :
              x.parallel = Absent /\ ~determineTargetsThrows(x)}}

InitKey ==
  /\ keyIn \in {x \in [treeA : KeyTrees, treeB : KeyTrees, cfgA : KeyConfigs, cfgB : KeyConfigs,
                        iA : 1..MaxTargets, iB : 1..MaxTargets] :
                  x.iA <= Len(x.cfgA.targets) /\ x.iB <= Len(x.cfgB.targets)}
  /\ keyOut = [done |-> FALSE]
  /\ tree = <<>>
  /\ edits = 0
  /\ goMod = TRUE
  /\ cores = 1
  /\ procEnv = NoEnv
  /\ goInstalled = TRUE
  /\ resolveIn = <<>>
  /\ resolveOut = [done |-> FALSE]
  /\ clock = 0
  /\ store = EmptyFn
  /\ outFiles = EmptyFn
  /\ sumFiles = EmptyFn
  /\ builtBinaries = <<>>
  /\ checksumFiles = <<>>
  /\ failedBuilds = <<>>
  /\ config = NoConfig
  /\ pc = "idle"
  /\ batches = <<>>
  /\ batchIdx = 0
  /\ jobs = <<>>
  /\ runs = 0
  /\ caller = [via |-> "none", options |-> DefaultOptions, store |-> EmptyFn, edits |-> 0]
  /\ hist = <<>>

\* BuildCache.getCacheKey(target, config) for both inputs; each
\* calculateSourceHash may fail and give the sentinel
CacheKeys ==
  /\ ~keyOut.done
  /\ \E failA \in BOOLEAN, failB \in BOOLEAN :
       keyOut' = [done |-> TRUE,
                  a |-> getCacheKey(keyIn.cfgA.targets[keyIn.iA], keyIn.cfgA,
                          IF failA THEN Unknown ELSE calculateSourceHash(keyIn.treeA)),
                  b |-> getCacheKey(keyIn.cfgB.targets[keyIn.iB], keyIn.cfgB,
                          IF failB THEN Unknown ELSE calculateSourceHash(keyIn.treeB))]
  /\ UNCHANGED <<tree, edits, goMod, cores, procEnv, goInstalled, resolveIn, resolveOut,
                 keyIn, clock, store, outFiles, sumFiles,
                 builtBinaries, checksumFiles, failedBuilds, config, pc, batches, batchIdx,
                 jobs, runs, caller, hist>>

NextKey == CacheKeys

SpecKey == InitKey /\ [][NextKey]_vars

\* ------------------------------------------- determineTargets on its own
\* platform strings of --target: well formed, without a slash, with an empty
\* part, with a second slash, and a pair that is not a supported platform
ResolveStrings ==
  {<<"linux", "/", "amd64">>, <<"windows", "/", "amd64">>, <<"linux">>, <<"linux", "/">>,
   <<"/", "amd64">>, <<"linux", "/", "amd64", "/", "x">>, <<"plan9", "/", "amd64">>}

OsArgs == {<<"linux">>, <<"windows">>, <<"plan9">>}

ArchArgs == {<<"x64">>, <<"amd64">>, <<"arm64">>}

\* the directives of a build command: --all, --target, --os, --arch
Directives ==
  [all : BOOLEAN, target : SeqsUpTo(ResolveStrings, MaxListed),
   os : SeqsUpTo(OsArgs, MaxListed), arch : SeqsUpTo(ArchArgs, MaxListed),
   version : {Absent}, output : {Absent}, name : {Absent},
   cgo : {FALSE}, checksum : {TRUE}, clean : {TRUE},
   timeout : {Absent}, parallel : {Absent}, noCache : {FALSE}]

InitResolve ==
  /\ resolveIn \in Directives
  /\ resolveOut = [done |-> FALSE]
  /\ keyIn = <<>>
  /\ keyOut = [done |-> FALSE]
  /\ tree = <<>>
  /\ edits = 0
  /\ goMod = TRUE
  /\ cores = 1
  /\ procEnv = NoEnv
  /\ goInstalled = TRUE
  /\ clock = 0
  /\ store = EmptyFn
  /\ outFiles = EmptyFn
  /\ sumFiles = EmptyFn
  /\ builtBinaries = <<>>
  /\ checksumFiles = <<>>
  /\ failedBuilds = <<>>
  /\ config = NoConfig
  /\ pc = "idle"
  /\ batches = <<>>
  /\ batchIdx = 0
  /\ jobs = <<>>
  /\ runs = 0
  /\ caller = [via |-> "none", options |-> DefaultOptions, store |-> EmptyFn, edits |-> 0]
  /\ hist = <<>>

\* CLI.determineTargets(options): it throws, or it returns the target list
ResolveTargets ==
  /\ ~resolveOut.done
  /\ resolveOut' = [done |-> TRUE,
                    threw |-> determineTargetsThrows(resolveIn),
                    targets |-> IF determineTargetsThrows(resolveIn) THEN <<>>
                                ELSE determineTargets(resolveIn, clock)]
  /\ UNCHANGED <<tree, edits, goMod, cores, procEnv, goInstalled, resolveIn, keyIn, keyOut,
                 clock, store, outFiles, sumFiles, builtBinaries, checksumFiles, failedBuilds,
                 config, pc, batches, batchIdx, jobs, runs, caller, hist>>

NextResolve == ResolveTargets

SpecResolve == InitResolve /\ [][NextResolve]_vars

\* =================================================================== claims
\* the jobs whose go process has started and has not ended
InFlight == {i \in DOMAIN jobs : jobs[i].pc = "Building"}

\* the finished invocations that returned a BuildResult
Returned == {k \in 1..Len(hist) : hist[k].result.kind = "returned"}

ToolchainFailed(h, i) == h.jobs[i].exit \in {"nonzero", "timeout", "enoent"}

\* C1 (partial failure): when build returns, in every batch in which exactly
\* one target's toolchain invocation failed, the outputs of the other targets
\* of the batch are in BuildResult.binaries and the labels of the batch in
\* BuildResult.failed are exactly the failing one.
C1_PartialFailure ==
  \A k \in Returned : \A b \in 1..Len(hist[k].batches) :
    LET h == hist[k]
        batch == Range(h.batches[b])
        bad == {i \in batch : ToolchainFailed(h, i)}
    IN  Cardinality(bad) = 1 =>
          /\ \A i \in batch \ bad : h.config.targets[i].output \in Range(h.result.binaries)
          /\ Range(h.result.failed) \cap {h.config.targets[i].platform : i \in batch}
               = {h.config.targets[i].platform : i \in bad}

\* C2 (concurrency bound): whenever go processes are in flight, their number
\* is at most min(config.parallel, available cores); with a limit that is
\* not a positive number none is ever in flight.
C2_ConcurrencyBound ==
  InFlight # {} =>
    /\ ~config.parallel.nan
    /\ Cardinality(InFlight) <= Min(config.parallel.n, cores)

C2_Witness ==
  /\ Cardinality(InFlight) = 2
  /\ Min(config.parallel.n, cores) = 2

\* C3 (batch barrier): a job of a later batch has left Pending only if every
\* job of every earlier batch is in a terminal state, failed or not.
C3_BatchBarrier ==
  \A a \in 1..Len(batches) : \A b \in 1..Len(batches) :
    a < b =>
      \A i \in Range(batches[a]) : \A j \in Range(batches[b]) :
        jobs[j].pc # "Pending" => jobs[i].pc \in {"Restored", "CachePersisted", "BuildFailed"}

C3_Witness ==
  /\ Len(batches) = 2
  /\ \E i \in Range(batches[1]) : \E j \in Range(batches[2]) :
       jobs[i].pc = "BuildFailed" /\ jobs[j].pc = "Building"

\* every target of the invocation ended with its binary
AllSucceeded(h) ==
  /\ h.result.kind = "returned"
  /\ h.result.success
  /\ \A i \in 1..Len(h.config.targets) : h.jobs[i].pc \in {"Restored", "CachePersisted"}

\* C4 (idempotence): an invocation that succeeded for all targets, followed
\* at once by the same command on the unmodified tree: the second invocation
\* restores every target from the cache, starts no go process, and every
\* output has the bytes of the first run.
C4_Idempotence ==
  \A k \in 1..(Len(hist) - 1) :
    ( /\ AllSucceeded(hist[k])
      /\ hist[k + 1].options = hist[k].options
      /\ hist[k + 1].storeBefore = hist[k].storeAfter
      /\ hist[k + 1].edits = hist[k].editsBefore )
    => /\ hist[k + 1].result.kind = "returned"
       /\ \A i \in 1..Len(hist[k + 1].config.targets) :
            /\ hist[k + 1].jobs[i].pc = "Restored"
            /\ hist[k + 1].jobs[i].exit = "none"
            /\ hist[k + 1].outs[i] = hist[k].outs[i]

\* C5 (source-change invalidation): two trees that differ in any way have
\* different source hashes (neither being the sentinel).
C5_SourceChangeInvalidates ==
  ( /\ keyOut.done
    /\ keyIn.treeA # keyIn.treeB
    /\ keyOut.a.sourceHash # Unknown
    /\ keyOut.b.sourceHash # Unknown )
  => keyOut.a.sourceHash # keyOut.b.sourceHash

\* the jobs of the invocation in progress whose cache key is computed
Keyed == {i \in DOMAIN jobs : jobs[i].pc \notin {"Pending", "Hashing"}}

\* C6 (shared source hash): all cache keys computed in one invocation carry
\* the same source hash, also when the sources change while it runs.
C6_SharedSourceHash ==
  \A i \in Keyed : \A j \in Keyed :
    (jobs[i].key.sourceHash # Unknown /\ jobs[j].key.sourceHash # Unknown)
    => jobs[i].key.sourceHash = jobs[j].key.sourceHash

\* C7 (config hash excludes per-target fields): two configs that are equal
\* in every field but the targets have the same configuration hash.
C7_ConfigHashIgnoresTargets ==
  ( /\ keyOut.done
    /\ [keyIn.cfgA EXCEPT !.targets = <<>>] = [keyIn.cfgB EXCEPT !.targets = <<>>] )
  => keyOut.a.configHash = keyOut.b.configHash

\* C8 (store failure is not a build failure): when build returns, a target
\* whose go process exited with 0 (and no target of the same platform failed
\* in the toolchain) has its output in binaries and its label not in failed.
C8_CacheFailureNotBuildFailure ==
  \A k \in Returned : \A i \in 1..Len(hist[k].jobs) :
    LET h == hist[k]
    IN  ( /\ h.jobs[i].exit = "ok"
          /\ \A j \in 1..Len(h.jobs) :
               h.config.targets[j].platform = h.config.targets[i].platform
                 => ~ToolchainFailed(h, j) )
        => /\ h.config.targets[i].output \in Range(h.result.binaries)
           /\ h.config.targets[i].platform \notin Range(h.result.failed)

\* C9 (the build path never purges the cache): only the clean and cache
\* commands, which run between invocations, remove entries of the store.
C9_BuildNeverPurges ==
  [][(pc = "idle" /\ pc' = "idle" /\ runs' = runs) \/ DOMAIN store \subseteq DOMAIN store']_vars

\* C10 (checksum failures do not affect the outcome): an invocation whose
\* batches all settled returns a BuildResult with the builder's binaries and
\* failed lists, whether or not writing the checksums failed.
C10_ChecksumFailureHarmless ==
  \A k \in 1..Len(hist) :
    hist[k].threw \notin {"determineTargets", "validateGoProject"}
    => /\ hist[k].result.kind = "returned"
       /\ hist[k].result.success = (hist[k].failedBuilds = <<>>)
       /\ hist[k].result.binaries = hist[k].builtBinaries
       /\ hist[k].result.failed = hist[k].failedBuilds

\* C11 (success flag): every BuildResult that build returns has success true
\* exactly when its failed list is empty.
C11_SuccessFlag ==
  \A k \in Returned : hist[k].result.success <=> (hist[k].result.failed = <<>>)

C11_Witness ==
  \E k \in Returned :
    /\ hist[k].result.failed # <<>>
    /\ hist[k].result.binaries # <<>>
    /\ ~hist[k].result.success

C13_NoDuplicateTargets ==
  (resolveOut.done /\ ~resolveOut.threw)
  => \A i \in 1..Len(resolveOut.targets) : \A j \in 1..Len(resolveOut.targets) :
       resolveOut.targets[i].platform = resolveOut.targets[j].platform => i = j

\* C14 (InvalidTarget): determineTargets throws when one of the platform
\* strings is not exactly two non-empty parts around one slash, or is not
\* one of the supported platforms.
C14_InvalidTarget ==
  resolveOut.done
  => \A i \in 1..Len(PlatformsOf(resolveIn)) :
       LET p == PlatformsOf(resolveIn)[i]
       IN  ( \/ Len(Split(p)) # 2
             \/ \E k \in 1..Len(Split(p)) : Split(p)[k] = <<>>
             \/ p \notin Range(SUPPORTED_PLATFORMS) )
           => resolveOut.threw

\* C15 (fail-open source hashing): a job whose calculateSourceHash returned
\* the sentinel is never restored from the store (its go process runs).
C15_SentinelAlwaysMiss ==
  \A i \in Keyed : jobs[i].key.sourceHash = Unknown => jobs[i].pc # "Restored"

\* C16 (cross-compilation environment): every go process that was started
\* has GOOS = target.os, GOARCH = target.arch and CGO_ENABLED = 1 exactly
\* when config.cgo, whatever the parent process environment defines.
C16_CrossCompileEnv ==
  \A i \in DOMAIN jobs :
    DOMAIN jobs[i].env # {}
    => /\ jobs[i].env.GOOS = config.targets[i].os
       /\ jobs[i].env.GOARCH = config.targets[i].arch
       /\ (jobs[i].env.CGO_ENABLED = "1") <=> config.cgo

\* C17 (per-target timeout): an invocation in which a go process was killed
\* by the timeout ends with a BuildResult; the job is in the failed terminal
\* state and its platform label is in BuildResult.failed.
C17_TimeoutIsPerTarget ==
  \A k \in 1..Len(hist) : \A i \in 1..Len(hist[k].jobs) :
    hist[k].jobs[i].exit = "timeout"
    => /\ hist[k].result.kind = "returned"
       /\ hist[k].jobs[i].pc = "BuildFailed"
       /\ hist[k].config.targets[i].platform \in Range(hist[k].result.failed)

\* C18 (ToolchainUnavailable is fatal): on a host without the go executable
\* no job ever leaves Pending (no key, no cache lookup, no go process), no
\* platform is recorded as failed, and every invocation ends with an error.
C18_ToolchainUnavailableFatal ==
  ~goInstalled
  => /\ \A i \in DOMAIN jobs : jobs[i].pc = "Pending"
     /\ failedBuilds = <<>>
     /\ \A k \in 1..Len(hist) : hist[k].result.kind = "thrown"

\* C19 (cache bypass): in an invocation with config.noCache no job is
\* restored from the store; every target runs its go process.
C19_NoCacheBypasses ==
  config.noCache => \A i \in DOMAIN jobs : jobs[i].pc # "Restored"

\* C20 (cache keys separate platforms): two targets with different platform
\* labels have different cache keys, and a job is not restored from the cache
\* file that a job of another platform label stored.
C20_KeysSeparatePlatforms ==
  \A i \in Keyed : \A j \in Keyed :
    config.targets[i].platform # config.targets[j].platform
    => /\ jobs[i].key # jobs[j].key
       /\ ~( /\ jobs[i].pc = "Restored"
             /\ jobs[j].pc = "CachePersisted"
             /\ cacheFile(jobs[i].key) = cacheFile(jobs[j].key) )

\* the jobs of the batch started last that are between their key computation
\* and their end: they run concurrently
Concurrent == {i \in Keyed : pc = "sched" /\ batchIdx > 0 /\ i \in Range(batches[batchIdx])
                              /\ jobs[i].pc \notin Terminal}

\* C21 (no key sharing between concurrent jobs): two jobs that run
\* concurrently in one batch never have the same cache key, the same cache
\* file or the same output path.
C21_NoKeySharing ==
  \A i \in Concurrent : \A j \in Concurrent :
    i # j => /\ jobs[i].key # jobs[j].key
             /\ cacheFile(jobs[i].key) # cacheFile(jobs[j].key)
             /\ config.targets[i].output # config.targets[j].output

\* C22 (cache entry integrity under crash): every file of the cache store
\* holds the complete bytes of a built binary, also after a crash between the
\* end of a build and the end of saveToCache, and no job is restored from a
\* partially written entry.
C22_CacheEntryIntegrity ==
  /\ \A f \in DOMAIN store : ~IsPartial(store[f])
  /\ \A i \in DOMAIN jobs :
       jobs[i].pc = "Restored" => ~IsPartial(FileAt(outFiles, config.targets[i].output))

\* the steps of a job the claim allows; a lookup in progress (Hashing, Keyed)
\* belongs to Pending, a hit is settled as Restored and a miss starts Building
JobSteps ==
  {<<"Pending", "Hashing">>, <<"Hashing", "Keyed">>, <<"Keyed", "Restored">>,
   <<"Keyed", "Building">>, <<"Building", "Built">>, <<"Building", "BuildFailed">>,
   <<"Built", "CachePersisted">>}

\* C23 (job state machine): within an invocation a job moves only along
\* Pending -> hit -> Restored or Pending -> miss -> Building -> (Built ->
\* CachePersisted | BuildFailed); Restored, CachePersisted and BuildFailed
\* have no successor, so no toolchain runs after a hit and nothing is saved
\* after a failed toolchain run.
C23_JobStateMachine ==
  [][runs' = runs =>
       \A i \in DOMAIN jobs :
         jobs'[i].pc = jobs[i].pc \/ <<jobs[i].pc, jobs'[i].pc>> \in JobSteps]_vars

\* C24 (checksum manifest and round trip): after an invocation with checksums
\* enabled has returned, checksums.txt has exactly one line for every path of
\* BuildResult.binaries and no other line, every binary has its .sha256
\* file, and both record the SHA-256 of the bytes the binary has on disk.
C24_ChecksumManifest ==
  \A k \in Returned :
    (k = Len(hist) /\ pc = "idle" /\ hist[k].config.checksum /\ hist[k].result.binaries # <<>>)
    => LET bins == hist[k].result.binaries
           dir == hist[k].config.outputDir
           lines == sumFiles[ManifestPath(dir)]
       IN  /\ ManifestPath(dir) \in DOMAIN sumFiles
           /\ \A n \in 1..Len(lines) : \E p \in Range(bins) : lines[n][2] = basename(p)
           /\ \A p \in Range(bins) :
                /\ IndividualPath(dir, p) \in DOMAIN sumFiles
                /\ sumFiles[IndividualPath(dir, p)] = Sha256(outFiles[p])
                /\ \A n \in 1..Len(lines) :
                     lines[n][2] = basename(p) => lines[n][1] = Sha256(outFiles[p])
                /\ Cardinality({n \in 1..Len(lines) : lines[n][2] = basename(p)}) = 1

\* C25 (deterministic source hash): two enumerations of the same files with
\* the same contents, in whatever order find prints them, have the same
\* source hash.
C25_DeterministicSourceHash ==
  ( /\ keyOut.done
    /\ Range(keyIn.treeA) = Range(keyIn.treeB)
    /\ keyOut.a.sourceHash # Unknown
    /\ keyOut.b.sourceHash # Unknown )
  => keyOut.a.sourceHash = keyOut.b.sourceHash

\* C26 (batch partition): the batches buildTargetsParallel runs are
\* consecutive slices of config.targets: concatenated in order they give the
\* target list, and every batch but the last has exactly
\* min(config.parallel, cores) targets.
C26_BatchPartition ==
  pc = "sched"
  => /\ Flatten(batches) = [i \in 1..Len(config.targets) |-> i]
     /\ \A k \in 1..Len(batches) :
          /\ ~ParallelLimit(config, cores).nan
          /\ Len(batches[k]) >= 1
          /\ Len(batches[k]) <= ParallelLimit(config, cores).n
          /\ k < Len(batches) => Len(batches[k]) = ParallelLimit(config, cores).n

\* C27 (accounting of targets): when build() returns a BuildResult, binaries
\* and failed together have as many entries as config.targets, whatever
\* --parallel was given.
C27_TargetsAccounted ==
  \A k \in Returned :
    Len(hist[k].result.binaries) + Len(hist[k].result.failed) = Len(hist[k].config.targets)

\* C28 (termination): the batch-splitting loop of buildTargetsParallel ends
\* for every value of config.parallel, so build() never stays in it.
C28_BatchLoopTerminates == pc # "hung"

\* the jobs of a finished invocation that ended in one of the given states
JobsEnded(h, states) == {i \in DOMAIN h.jobs : h.jobs[i].pc \in states}

\* C29 (result isolation): a returned BuildResult stays as it was returned,
\* and it lists as many binaries and failed platforms as the jobs of its own
\* invocation produced, also when build() runs again on the same GoBuilder.
C29_ResultIsolation ==
  \A k \in Returned :
    /\ heldResult(k) = hist[k].result
    /\ Len(hist[k].result.binaries)
         = Cardinality(JobsEnded(hist[k], {"Restored", "CachePersisted"}))
    /\ Len(hist[k].result.failed) = Cardinality(JobsEnded(hist[k], {"BuildFailed"}))

\* C30 (project precondition): a build() call made while go.mod is absent
\* throws and changes nothing: the output directory, the checksum files and
\* the cache store stay as they are, no job is created (no cache key, no
\* toolchain run) and the builder's collections are unchanged.
C30_ProjectPrecondition ==
  [][(~goMod /\ runs' = runs + 1)
       => /\ pc' = "idle"
          /\ Len(hist') = Len(hist) + 1
          /\ hist'[Len(hist')].threw = "validateGoProject"
          /\ store' = store
          /\ outFiles' = outFiles
          /\ sumFiles' = sumFiles
          /\ jobs' = jobs
          /\ batches' = batches
          /\ builtBinaries' = builtBinaries
          /\ checksumFiles' = checksumFiles
          /\ failedBuilds' = failedBuilds]_vars

\* a build() call threw for want of go.mod on a builder that holds binaries
\* of an earlier call, with files in the cache and in the output directory
C30_Witness ==
  /\ hist # <<>>
  /\ hist[Len(hist)].threw = "validateGoProject"
  /\ ~goMod
  /\ builtBinaries # <<>>
  /\ store # EmptyFn
  /\ outFiles # EmptyFn

====
